---- MODULE Spec2Model ----
(***************************************************************************)
(* Model of the PDF translation scripts of RapidPaperTrans:                *)
(*   scripts/pdf_translate.py       cache file + fuzzy lookup per line     *)
(*   internal/pdf/translate_pdf.py  md5 cache + service + textbox overlay  *)
(*   internal/pdf/overlay_pdf.py    md5 cache + service + htmlbox overlay  *)
(*   internal/pdf/extract_text.py   block classification                   *)
(*   internal/pdf/write_translations.py, python_overlay.py  overlays       *)
(*                                                                         *)
(* A text is a sequence of one-character strings.  Python's None is the    *)
(* one-element sequence None, which is no text of any input domain.        *)
(***************************************************************************)
EXTENDS Integers, Sequences, FiniteSets, TLC

VARIABLES
    pc,           \* position of the run being modelled
    variant,      \* the script that runs
    data,         \* parsed content of the cache file
    cache,        \* the cache dict (insertion ordered)
    cache_keys,   \* pdf_translate: keys sorted by descending length
    line_text,    \* text of the line or block being looked up
    translation,  \* result of the lookup
    calls,        \* the cache calls or service calls made so far
    verdict,      \* classifier: is_formula / should_translate of line_text
    block,        \* the block being rendered, as extracted
    block_ops,    \* the calls made on the page for that block, in order
    stats,        \* the counters of a run
    todo,         \* blocks of the document not yet visited
    error,        \* the exception that ended the run, or None
    use_api,      \* overlay_pdf: api_key, base_url and model are all given
    used,         \* history: text -> translation the run obtained for it
    earlier,      \* history: `used` of the runs completed before this one
    doc           \* write_translations: per page, the calls made on it

lookupVars == <<data, cache, cache_keys, line_text, translation, calls, verdict>>

renderVars == <<variant, block, block_ops>>

runVars == <<stats, todo, error, use_api, used, earlier, doc>>

vars == <<pc, variant, data, cache, cache_keys, line_text, translation, calls,
          verdict, block, block_ops, stats, todo, error, use_api,
          used, earlier, doc>>

Unused == <<>>

(***************************************************************************)
(* Bounds of the model and constants of the program                        *)
(***************************************************************************)
MaxEntries == 2      \* entries in a cache file
MaxRuns == 2         \* runs of translate_pdf.py on one cache file
MaxBlocks == 2       \* text blocks (lines) of the document
MaxSpans == 2        \* spans of a rendered block
MaxHalfPoints == 36  \* largest original font size, in half points
BASE_FONT_SIZE == 12 \* translate_pdf.py
FIXED_FONT_SIZE == 10 \* write_translations.py
MaxLines == 4        \* lines of a classified text
MaxCalls == 4        \* calls of TranslationCache.get and set in a run of the cache
MinTextLen == 3      \* find_translation: shortest text that is looked up
MinFuzzyLen == 10    \* find_translation: shortest key / text / prefix of a fuzzy step
WindowLen == 12      \* find_translation: sliding window

None == <<"None">>

(***************************************************************************)
(* Python strings                                                          *)
(***************************************************************************)
WhiteSpace == {" ", "\t", "\n", "\r"}

Rep(c, n) == [i \in 1..n |-> c]

\* k in s
Contains(k, s) ==
    \E i \in 0..(Len(s) - Len(k)) : SubSeq(s, i + 1, i + Len(k)) = k

IsSpace(c) == c \in WhiteSpace

\* re.sub(r'\s+', '', text)
normalize_text(text) == SelectSeq(text, LAMBDA c : ~IsSpace(c))

\* bool(x) of a str or None
\* truth of a text that is never None
NonEmpty(x) == x # <<>>

\* truth of a text or None
Truthy(x) == x # None /\ x # <<>>

(***************************************************************************)
(* Python dict, insertion ordered: keys in order of first insertion        *)
(***************************************************************************)
EmptyDict == [keys |-> <<>>, val |-> <<>>]

Range(s) == {s[i] : i \in DOMAIN s}

IndexOf(s, x) == CHOOSE i \in DOMAIN s : s[i] = x

HasKey(d, k) == k \in Range(d.keys)

DictGet(d, k) == IF HasKey(d, k) THEN d.val[IndexOf(d.keys, k)] ELSE None

DictSet(d, k, v) ==
    IF HasKey(d, k)
    THEN [d EXCEPT !.val[IndexOf(d.keys, k)] = v]
    ELSE [keys |-> Append(d.keys, k), val |-> Append(d.val, v)]

(***************************************************************************)
(* scripts/pdf_translate.py                                                *)
(***************************************************************************)
\* a parsed cache file of the entries shape
EntriesFile(es) == [shape |-> "entries", entries |-> es]

RECURSIVE LoadEntries(_, _)
LoadEntries(es, d) ==
    IF es = <<>> THEN d
    ELSE LET e == Head(es)
         IN  LoadEntries(Tail(es),
                 IF e.original # <<>> /\ e.translation # <<>>
                 THEN DictSet(d, normalize_text(e.original), e.translation)
                 ELSE d)

\* load_cache that also takes a flat file as the cache
load_cache_any_shape(file) ==
    IF file.shape = "entries" THEN LoadEntries(file.entries, EmptyDict)
    ELSE IF file.shape = "flat" THEN file.dict
    ELSE EmptyDict

\* load_cache, once json.load has returned
load_cache(file) ==
    IF file.shape = "entries" THEN LoadEntries(file.entries, EmptyDict)
    ELSE EmptyDict

\* stable insertion of k behind every key that is at least as long
RECURSIVE InsertByLen(_, _)
InsertByLen(s, k) ==
    IF s = <<>> THEN <<k>>
    ELSE IF Len(Head(s)) >= Len(k) THEN <<Head(s)>> \o InsertByLen(Tail(s), k)
    ELSE <<k>> \o s

RECURSIVE SortedDesc(_, _)
SortedDesc(s, acc) ==
    IF s = <<>> THEN acc ELSE SortedDesc(Tail(s), InsertByLen(acc, Head(s)))

\* sorted(cache.keys(), key=len): the keys shortest first
sorted_keys_ascending(d) ==
    LET desc == SortedDesc(d.keys, <<>>)
    IN  [i \in 1..Len(desc) |-> desc[Len(desc) + 1 - i]]

\* sorted(cache.keys(), key=len, reverse=True)
sorted_keys(d) == SortedDesc(d.keys, <<>>)

\* the first key of the iteration that is one of the keys S a loop accepts,
\* or None when the loop runs to its end
FirstKey(keys, S) ==
    LET I == {i \in DOMAIN keys : keys[i] \in S}
    IN  IF I = {} THEN None
        ELSE keys[CHOOSE i \in I : \A j \in I : i <= j]

RECURSIVE prefix_len(_, _, _, _)
prefix_len(a, b, i, min_len) ==
    IF i > min_len THEN min_len
    ELSE IF a[i] = b[i] THEN prefix_len(a, b, i + 1, min_len)
    ELSE i - 1

Min(a, b) == IF a <= b THEN a ELSE b

KeyInText(n, key) == Len(key) >= MinFuzzyLen /\ Contains(key, n)

\* the text-in-key test without its length guard
TextInKey_any_length(n, key) == Contains(n, key)

TextInKey(n, key) == Len(n) >= MinFuzzyLen /\ Contains(n, key)

WindowInKey(n, key) ==
    /\ Len(n) >= WindowLen
    /\ Len(key) >= WindowLen
    /\ \E i \in 0..(Len(n) - WindowLen) :
           Contains(SubSeq(n, i + 1, i + WindowLen), key)

PrefixMatch(n, key) ==
    LET min_len == Min(Len(n), Len(key))
    IN  /\ min_len >= MinFuzzyLen
        /\ prefix_len(n, key, 1, min_len) >= MinFuzzyLen

\* find_translation with the exact match tested on the text as extracted
find_translation_raw_exact(text, d, keys) ==
    LET normalized == normalize_text(text)
        k3 == FirstKey(keys, {key \in Range(keys) : KeyInText(normalized, key)})
        k4 == FirstKey(keys, {key \in Range(keys) : TextInKey(normalized, key)})
        k5 == FirstKey(keys, {key \in Range(keys) : WindowInKey(normalized, key)})
        k6 == FirstKey(keys, {key \in Range(keys) : PrefixMatch(normalized, key)})
    IN  IF normalized = <<>> \/ Len(normalized) < MinTextLen THEN None
        ELSE IF HasKey(d, text) THEN DictGet(d, text)
        ELSE IF k3 # None THEN DictGet(d, k3)
        ELSE IF k4 # None THEN DictGet(d, k4)
        ELSE IF k5 # None THEN DictGet(d, k5)
        ELSE IF k6 # None THEN DictGet(d, k6)
        ELSE None

find_translation(text, d, keys) ==
    LET normalized == normalize_text(text)
        k3 == FirstKey(keys, {key \in Range(keys) : KeyInText(normalized, key)})
        k4 == FirstKey(keys, {key \in Range(keys) : TextInKey(normalized, key)})
        k5 == FirstKey(keys, {key \in Range(keys) : WindowInKey(normalized, key)})
        k6 == FirstKey(keys, {key \in Range(keys) : PrefixMatch(normalized, key)})
    IN  IF normalized = <<>> \/ Len(normalized) < MinTextLen THEN None
        ELSE IF HasKey(d, normalized) THEN DictGet(d, normalized)
        ELSE IF k3 # None THEN DictGet(d, k3)
        ELSE IF k4 # None THEN DictGet(d, k4)
        ELSE IF k5 # None THEN DictGet(d, k5)
        ELSE IF k6 # None THEN DictGet(d, k6)
        ELSE None

(***************************************************************************)
(* Inputs of the lookup: texts a^n b^m around the thresholds               *)
(***************************************************************************)
Runs == {2, 3} \cup ((MinFuzzyLen - 1)..(WindowLen + 1))
Tails == {<<>>, <<"b">>}
KeyTexts == {Rep("a", n) \o t : n \in Runs, t \in Tails}

\* the same text as a line of the page: wrapped and indented differently
Reflow(s) == <<" ">> \o SubSeq(s, 1, 2) \o <<"\n">> \o SubSeq(s, 3, Len(s)) \o <<"\t">>
LineTexts == KeyTexts \cup {Reflow(s) : s \in KeyTexts}

\* the translation of the i-th entry of the file
TransOf(i) == Rep("t", i)

\* originals of the entries of a cache file: stored with their own wrapping
EntryOriginals == KeyTexts \cup {Reflow(Rep("a", WindowLen))}

CacheFiles ==
    UNION {{EntriesFile([i \in 1..n |->
                [original |-> ks[i], translation |-> TransOf(i)]]) :
            ks \in [1..n -> EntryOriginals]} : n \in 0..MaxEntries}

InitFind ==
    /\ pc = "start"
    /\ calls = <<>>
    /\ verdict = Unused
    /\ variant = "pdf_translate" /\ block = Unused /\ block_ops = <<>>
    /\ stats = Unused /\ todo = 0 /\ error = None /\ use_api = FALSE
    /\ used = EmptyDict /\ earlier = <<>> /\ doc = <<>>
    /\ data \in CacheFiles
    /\ line_text \in LineTexts
    /\ cache = EmptyDict
    /\ cache_keys = <<>>
    /\ translation = None

\* translate_pdf: cache = load_cache(cache_path); cache_keys = sorted(...)
LoadCache ==
    /\ pc = "start"
    /\ cache' = load_cache(data)
    /\ cache_keys' = sorted_keys(cache')
    /\ pc' = "loaded"
    /\ UNCHANGED <<data, line_text, translation, calls, verdict>>
    /\ UNCHANGED renderVars
    /\ UNCHANGED runVars

\* translate_pdf: translation = find_translation(line_text, cache, cache_keys)
FindLine ==
    /\ pc = "loaded"
    /\ translation' = find_translation(line_text, cache, cache_keys)
    /\ pc' = "found"
    /\ UNCHANGED <<data, cache, cache_keys, line_text, calls, verdict>>
    /\ UNCHANGED renderVars
    /\ UNCHANGED runVars

NextFind == LoadCache \/ FindLine

SpecFind == InitFind /\ [][NextFind]_vars

(***************************************************************************)
(* TranslationCache of translate_pdf.py and overlay_pdf.py                 *)
(***************************************************************************)
\* the characters of the modelled texts, in the order of their codes
Alphabet == <<" ", "\t", "\n", "\r", "a", "b", "c", "d", "1", "2", "3",
              "(", ")", "x", "y", "t">>

CharCode(c) == IndexOf(Alphabet, c)

RECURSIVE Digest(_, _)
Digest(text, h) ==
    IF text = <<>> THEN h
    ELSE Digest(Tail(text), h * (Len(Alphabet) + 1) + CharCode(Head(text)))

HexDigits == <<"0", "1", "2", "3", "4", "5", "6", "7",
               "8", "9", "a", "b", "c", "d", "e", "f">>

RECURSIVE HexOf(_)
HexOf(n) ==
    IF n < 16 THEN <<HexDigits[n + 1]>>
    ELSE HexOf(n \div 16) \o <<HexDigits[(n % 16) + 1]>>

\* hashlib.md5(text.encode()).hexdigest(): a digest of the text as it is,
\* whitespace included.  The 128-bit digest is modelled by the text's
\* positional code, which is below 2^128 and collision-free on the texts of
\* the model, as md5 is on the block texts of a document.
md5(text) == <<"#">> \o HexOf(Digest(text, 1))

\* json.load of a file that holds JSON, but no object
NotADict == [json |-> "list"]

IsDict(c) == "keys" \in DOMAIN c

\* the AttributeError of self.cache.get on a cache that is no dict
AttributeError == <<"AttributeError">>

\* TranslationCache.get with the key taken from the text without whitespace
TranslationCache_get_stripped(c, text) ==
    IF IsDict(c) THEN DictGet(c, md5(normalize_text(text))) ELSE AttributeError

\* TranslationCache.get
TranslationCache_get(c, text) ==
    IF IsDict(c) THEN DictGet(c, md5(text)) ELSE AttributeError

\* TranslationCache.set that keeps the translation a key already has
TranslationCache_set_keep_first(c, text, trans) ==
    IF HasKey(c, md5(text)) THEN c ELSE DictSet(c, md5(text), trans)

\* TranslationCache.set with the text itself as the key
TranslationCache_set_by_text(c, text, trans) == DictSet(c, text, trans)

\* TranslationCache.set
TranslationCache_set(c, text, trans) == DictSet(c, md5(text), trans)

RECURSIVE lstrip(_)
lstrip(text) ==
    IF text # <<>> /\ IsSpace(Head(text)) THEN lstrip(Tail(text)) ELSE text

RECURSIVE rstrip(_)
rstrip(text) ==
    IF text # <<>> /\ IsSpace(text[Len(text)])
    THEN rstrip(SubSeq(text, 1, Len(text) - 1)) ELSE text

\* str.strip()
strip(text) == rstrip(lstrip(text))

\* TranslationCache.load_from_translations (overlay_pdf.py)
RECURSIVE load_from_translations(_, _)
load_from_translations(c, translations) ==
    IF translations = <<>> THEN c
    ELSE LET t == Head(translations)
             orig_text == strip(t.text)
             trans_text == strip(t.translated_text)
         IN  load_from_translations(
                 IF orig_text # <<>> /\ trans_text # <<>>
                 THEN TranslationCache_set(c, orig_text, trans_text)
                 ELSE c,
                 Tail(translations))

\* texts and translations of the cache operations
CacheTexts == {<<"a", "b">>, <<"a", " ", "b">>, <<"b", "a">>}
CacheTranslations == {<<"x">>, <<"y">>}

\* translations JSON of overlay_pdf: texts as extracted, some left blank
RawItems ==
    {[text |-> <<"a", "b", "\n">>, translated_text |-> <<" ", "x">>],
     [text |-> <<"a", "b", "\n">>, translated_text |-> <<"y", "\n">>],
     [text |-> <<" ", "b", "a">>, translated_text |-> <<" ">>],
     [text |-> <<>>, translated_text |-> <<"y">>]}

\* the set calls load_from_translations makes for a translations list
SetsOf(translations) ==
    LET valid == SelectSeq(translations,
                     LAMBDA t : strip(t.text) # <<>> /\ strip(t.translated_text) # <<>>)
    IN  [i \in 1..Len(valid) |->
            [op |-> "set", text |-> strip(valid[i].text),
             translation |-> strip(valid[i].translated_text)]]

\* a flat cache file as an earlier run saved it: md5 key -> translation
SavedFiles ==
    {EmptyDict} \cup {DictSet(EmptyDict, md5(t), <<"x">>) : t \in {<<"a", "b">>}}

\* TranslationCache(cache_path): the cache holds what the file held
InitCache ==
    /\ pc = "cache"
    /\ data \in SavedFiles
    /\ cache = data
    /\ calls = <<>>
    /\ line_text = <<>>
    /\ translation = None
    /\ cache_keys = <<>>
    /\ verdict = Unused
    /\ variant = "translate_pdf" /\ block = Unused /\ block_ops = <<>>
    /\ stats = Unused /\ todo = 0 /\ error = None /\ use_api = FALSE
    /\ used = EmptyDict /\ earlier = <<>> /\ doc = <<>>

\* cache.set(text, translation)
CacheSet ==
    /\ pc = "cache"
    /\ Len(calls) < MaxCalls
    /\ \E t \in CacheTexts, x \in CacheTranslations :
          /\ cache' = TranslationCache_set(cache, t, x)
          /\ calls' = Append(calls, [op |-> "set", text |-> t, translation |-> x])
    /\ UNCHANGED <<pc, data, cache_keys, line_text, translation, verdict>>
    /\ UNCHANGED renderVars
    /\ UNCHANGED runVars

\* cache.load_from_translations(translations)
CacheLoadFromTranslations ==
    /\ pc = "cache"
    /\ \E translations \in {<<i>> : i \in RawItems} \cup
                           {<<i, j>> : i \in RawItems, j \in RawItems} :
          /\ Len(calls) + Len(SetsOf(translations)) <= MaxCalls
          /\ cache' = load_from_translations(cache, translations)
          /\ calls' = calls \o SetsOf(translations)
    /\ UNCHANGED <<pc, data, cache_keys, line_text, translation, verdict>>
    /\ UNCHANGED renderVars
    /\ UNCHANGED runVars

\* translation = cache.get(text)
CacheGet ==
    /\ pc = "cache"
    /\ Len(calls) < MaxCalls
    /\ \E t \in CacheTexts :
          /\ line_text' = t
          /\ translation' = TranslationCache_get(cache, t)
          /\ calls' = Append(calls, [op |-> "get", text |-> t,
                                     translation |-> translation'])
    /\ UNCHANGED <<pc, data, cache, cache_keys, verdict>>
    /\ UNCHANGED renderVars
    /\ UNCHANGED runVars

NextCache == CacheSet \/ CacheLoadFromTranslations \/ CacheGet

SpecCache == InitCache /\ [][NextCache]_vars

(***************************************************************************)
(* Claims about TranslationCache, under SpecCache                          *)
(***************************************************************************)
\* the translation of the most recent set of text t among the first n calls;
\* without one, what the file the cache was loaded from holds for t
LastSet(t, n) ==
    LET I == {i \in 1..n : calls[i].op = "set" /\ calls[i].text = t}
    IN  IF I = {} THEN DictGet(data, md5(t))
        ELSE calls[CHOOSE i \in I : \A j \in I : j <= i].translation

\* C4: after any sequence of set operations, get(t) returns the translation
\* of the most recent set(t, x): every get that was made returned it, and a
\* get made now returns it; sets on other texts do not change it.
C4_LastWriteWins ==
    /\ \A k \in DOMAIN calls :
          calls[k].op = "get" => calls[k].translation = LastSet(calls[k].text, k - 1)
    /\ \A t \in CacheTexts :
          TranslationCache_get(cache, t) = LastSet(t, Len(calls))

\* C4 witness: a text was set twice with different translations, then
\* another text was set, and the get after that returned the second one.
C4_Witness ==
    \E i, j, k, g \in DOMAIN calls :
        /\ i < j /\ j < k /\ k < g
        /\ calls[i].op = "set" /\ calls[j].op = "set" /\ calls[k].op = "set"
        /\ calls[g].op = "get"
        /\ calls[i].text = calls[j].text
        /\ calls[i].translation # calls[j].translation
        /\ calls[k].text # calls[j].text
        /\ calls[g].text = calls[j].text
        /\ calls[g].translation = calls[j].translation

(***************************************************************************)
(* Classification: extract_text.py, translate_pdf.py, overlay_pdf.py       *)
(* A character outside ASCII is written as its code point, "U+2211".       *)
(***************************************************************************)
Digits == {"0", "1", "2", "3", "4", "5", "6", "7", "8", "9"}
Lower == {"a", "b", "c", "d", "e", "t", "x", "y"}
Upper == {"A", "B"}
\* strong_math_symbols (the sum sign stands for the six of them)
StrongMath == {"U+2211"}
\* math_symbols: signs as the plus-minus sign, and the Greek letters
MathSigns == {"U+00B1"}
Greek == {"U+03B1"}
MathSymbols == MathSigns \cup Greek
\* '一' <= c <= '鿿'
Chinese == {"U+4E2D"}

\* str.isalpha() of one character
IsAlpha(c) == c \in Lower \cup Upper \cup Greek \cup Chinese

\* [a-zA-Z]
IsAsciiLetter(c) == c \in Lower \cup Upper

\* str.isdigit()
isdigit(text) == text # <<>> /\ \A i \in DOMAIN text : text[i] \in Digits

Count(text, S) == Cardinality({i \in DOMAIN text : text[i] \in S})

CountAlpha(text) == Cardinality({i \in DOMAIN text : IsAlpha(text[i])})

\* text.split('\n')
RECURSIVE split_lines(_, _)
split_lines(text, cur) ==
    IF text = <<>> THEN <<cur>>
    ELSE IF Head(text) = "\n" THEN <<cur>> \o split_lines(Tail(text), <<>>)
    ELSE split_lines(Tail(text), Append(cur, Head(text)))

\* re.search(r'\\[a-zA-Z]+', text)
HasLatexCommand(text) ==
    \E i \in 1..(Len(text) - 1) : text[i] = "\\" /\ IsAsciiLetter(text[i + 1])

\* re.search(r'^\s*\(\d+\)\s*$|^\s*\([A-Z]\.\d+\)\s*$', text.strip())
IsEquationNumber(text) ==
    LET t == strip(text)
        n == Len(t)
    IN  /\ n >= 3
        /\ t[1] = "(" /\ t[n] = ")"
        /\ \/ isdigit(SubSeq(t, 2, n - 1))
           \/ /\ n >= 5
              /\ t[2] \in Upper /\ t[3] = "."
              /\ isdigit(SubSeq(t, 4, n - 1))

\* len(re.findall(r'[a-zA-Z][_^]\d', text))
SubscriptCount(text) ==
    Cardinality({i \in 1..(Len(text) - 2) :
        /\ IsAsciiLetter(text[i])
        /\ text[i + 1] \in {"_", "^"}
        /\ text[i + 2] \in Digits})

is_formula(text) ==
    \/ \E i \in DOMAIN text : text[i] \in StrongMath
    \/ HasLatexCommand(text)
    \/ IsEquationNumber(text)
    \/ Len(text) < 50 /\ SubscriptCount(text) > 2
    \/ Len(text) > 0 /\ 10 * Count(text, MathSymbols) > 4 * Len(text)

\* is_line_number with a threshold of 80%
is_line_number_80(text) ==
    LET lines == split_lines(strip(text), <<>>)
        number_lines == Cardinality({i \in DOMAIN lines : isdigit(strip(lines[i]))})
    IN  IF Len(lines) < 3 THEN FALSE
        ELSE 10 * number_lines > 8 * Len(lines)

\* number_lines / len(lines) > 0.7, in exact arithmetic
is_line_number(text) ==
    LET lines == split_lines(strip(text), <<>>)
        number_lines == Cardinality({i \in DOMAIN lines : isdigit(strip(lines[i]))})
    IN  IF Len(lines) < 3 THEN FALSE
        ELSE 10 * number_lines > 7 * Len(lines)

\* should_translate without text = text.strip()
should_translate_unstripped(text) ==
    IF text = <<>> \/ Len(text) < 3 THEN FALSE
    ELSE IF is_line_number(text) THEN FALSE
    ELSE IF is_formula(text) THEN FALSE
    ELSE IF Len(text) > 0 /\ 10 * CountAlpha(text) < 3 * Len(text) THEN FALSE
    ELSE IF 10 * Count(text, Chinese) > 3 * Len(text) THEN FALSE
    ELSE TRUE

\* should_translate of extract_text.py and translate_pdf.py
should_translate(raw) ==
    LET text == strip(raw)
    IN  IF text = <<>> \/ Len(text) < 3 THEN FALSE
        ELSE IF is_line_number(text) THEN FALSE
        ELSE IF is_formula(text) THEN FALSE
        ELSE IF Len(text) > 0 /\ 10 * CountAlpha(text) < 3 * Len(text) THEN FALSE
        ELSE IF 10 * Count(text, Chinese) > 3 * Len(text) THEN FALSE
        ELSE TRUE

\* should_translate of overlay_pdf.py
overlay_should_translate(raw) ==
    LET text == strip(raw)
    IN  IF text = <<>> \/ Len(text) < 3 THEN FALSE
        ELSE IF is_line_number(text) THEN FALSE
        ELSE IF is_formula(text) THEN FALSE
        ELSE IF Len(text) > 0 /\ 10 * CountAlpha(text) < 3 * Len(text) THEN FALSE
        ELSE TRUE

\* lines of a block text
BlockLines == {<<>>, <<"1">>, <<" ", "7", "\t">>, <<"1", "2">>, <<"a">>,
               <<"a", "b", "c">>}

RECURSIVE JoinLines(_)
JoinLines(lines) ==
    IF Len(lines) = 1 THEN lines[1]
    ELSE lines[1] \o <<"\n">> \o JoinLines(Tail(lines))

ClassifiedTexts ==
    UNION {{JoinLines(ls) : ls \in [1..n -> BlockLines]} : n \in 1..MaxLines}

\* block texts with mathematical symbols or Chinese characters
SymbolTexts ==
    {<<"U+03B1">>, <<"U+03B1", "a">>, <<"U+03B1", "a", "b">>,
     <<"U+2211", "a", "b">>, <<"(", "1", ")">>,
     <<"a", "_", "1", "b", "^", "2", "c", "_", "3">>,
     <<"U+4E2D", "U+4E2D", "a", "b">>, <<"U+4E2D", "a", "b", "c">>}

\* whitespace around a block text
LeftPads == {<<>>, <<" ">>}
RightPads == {<<>>, <<"\n", "\t">>}

Padded(pad, text) == pad.left \o text \o pad.right

InitClassify ==
    /\ pc = "text"
    /\ line_text \in ClassifiedTexts \cup SymbolTexts
    /\ block \in [left : LeftPads, right : RightPads]
    /\ verdict = Unused
    /\ data = <<>>
    /\ cache = EmptyDict
    /\ cache_keys = <<>>
    /\ translation = None
    /\ calls = <<>>
    /\ variant = "extract_text" /\ block_ops = <<>>
    /\ stats = Unused /\ todo = 0 /\ error = None /\ use_api = FALSE
    /\ used = EmptyDict /\ earlier = <<>> /\ doc = <<>>

\* extract_text_blocks: block_type and translatable of a block text
Classify ==
    /\ pc = "text"
    /\ verdict' = [formula |-> is_formula(line_text),
                   translatable |-> should_translate(line_text),
                   overlay_translatable |-> overlay_should_translate(line_text),
                   block_type |-> is_formula(strip(Padded(block, line_text))),
                   padded_formula |-> is_formula(Padded(block, line_text)),
                   padded_translatable |->
                       should_translate(Padded(block, line_text)),
                   padded_overlay_translatable |->
                       overlay_should_translate(Padded(block, line_text))]
    /\ pc' = "classified"
    /\ UNCHANGED <<data, cache, cache_keys, line_text, translation, calls>>
    /\ UNCHANGED renderVars
    /\ UNCHANGED runVars

NextClassify == Classify

SpecClassify == InitClassify /\ [][NextClassify]_vars

(***************************************************************************)
(* Claims about the classifier, under SpecClassify                         *)
(***************************************************************************)
\* the lines of s that, trimmed, consist solely of digits
C10_DigitLines(s) ==
    LET lines == split_lines(s, <<>>)
    IN  {i \in DOMAIN lines : isdigit(strip(lines[i]))}

\* C10: should_translate is false for every string shorter than 3, and for
\* every string of at least 3 lines of which more than 70% are digit lines.
C10_ShortAndLineNumbersRejected ==
    LET n == Len(split_lines(line_text, <<>>))
    IN  pc = "classified" =>
          /\ Len(line_text) < 3 =>
                ~verdict.translatable /\ ~verdict.overlay_translatable
          /\ (n >= 3 /\ 10 * Cardinality(C10_DigitLines(line_text)) > 7 * n) =>
                ~verdict.translatable /\ ~verdict.overlay_translatable

\* C10 witness: a text of four lines, three of them digit lines, with enough
\* letters in the fourth to pass the alphabetic gate, is rejected.
C10_Witness ==
    /\ pc = "classified"
    /\ Len(split_lines(line_text, <<>>)) = 4
    /\ Cardinality(C10_DigitLines(line_text)) = 3
    /\ 10 * CountAlpha(line_text) >= 3 * Len(strip(line_text))
    /\ ~verdict.formula
    /\ ~verdict.translatable

\* C11 as claimed: is_formula and should_translate give a text with
\* whitespace added around it what they give the text itself, and a text of
\* whitespace only is not translatable.
C11_Original ==
    pc = "classified" =>
        /\ verdict.padded_formula = verdict.formula
        /\ verdict.padded_translatable = verdict.translatable
        /\ verdict.padded_overlay_translatable = verdict.overlay_translatable
        /\ strip(line_text) = <<>> =>
              ~verdict.translatable /\ ~verdict.overlay_translatable

\* C11 as amended: should_translate strips its text, so whitespace added
\* around a text never changes it, and a text of whitespace only is not
\* translatable.  is_formula counts the whitespace in len(text): whitespace
\* added around a text can turn a formula into a non-formula (the 40% rule),
\* never a non-formula into a formula; is_formula is insensitive to it
\* where it is called, on the stripped text.
C11_StableUnderPadding ==
    pc = "classified" =>
        /\ verdict.padded_translatable = verdict.translatable
        /\ verdict.padded_overlay_translatable = verdict.overlay_translatable
        /\ strip(line_text) = <<>> =>
              ~verdict.translatable /\ ~verdict.overlay_translatable
        /\ verdict.padded_formula => verdict.formula
        /\ verdict.block_type = is_formula(strip(line_text))

\* C11 witness: a Greek letter and a Latin letter are a formula; with a
\* space before and a newline and a tab behind they are none, and the
\* stripped text is a formula again.
C11_Witness ==
    /\ pc = "classified"
    /\ line_text = <<"U+03B1", "a">>
    /\ block.left # <<>> /\ block.right # <<>>
    /\ verdict.formula /\ ~verdict.padded_formula /\ verdict.block_type
    /\ ~verdict.translatable /\ ~verdict.padded_translatable

\* C12 as claimed: every should_translate rejects a text of which more than
\* 30% of the characters are Chinese.
C12_Original ==
    (pc = "classified" /\ 10 * Count(line_text, Chinese) > 3 * Len(line_text))
        => ~verdict.translatable /\ ~verdict.overlay_translatable

(***************************************************************************)
(* Font sizes: non-negative rationals <<numerator, denominator>>           *)
(***************************************************************************)
RECURSIVE GCD(_, _)
GCD(a, b) == IF b = 0 THEN a ELSE GCD(b, a % b)

Q(n, d) == LET g == GCD(n, d) IN <<n \div g, d \div g>>

QMul(a, b) == Q(a[1] * b[1], a[2] * b[2])

QAdd(a, b) == Q(a[1] * b[2] + b[1] * a[2], a[2] * b[2])

QLe(a, b) == a[1] * b[2] <= b[1] * a[2]

QLt(a, b) == a[1] * b[2] < b[1] * a[2]

QMax(a, b) == IF QLe(a, b) THEN b ELSE a

QMin(a, b) == IF QLe(a, b) THEN a ELSE b

RECURSIVE QSum(_)
QSum(sizes) == IF sizes = <<>> THEN Q(0, 1) ELSE QAdd(Head(sizes), QSum(Tail(sizes)))

\* dict.get(key, default) of a value that may be absent (None)
GetOr(v, default) == IF v = None THEN default ELSE v

\* f"{font_size:.1f}": the nearest tenth; a size halfway between two tenths
\* goes to the one or the other, as its binary representation falls
OneDecimal(x) ==
    LET lo == (10 * x[1]) \div x[2]
        twice == 2 * ((10 * x[1]) % x[2])
    IN  IF twice < x[2] THEN {Q(lo, 10)}
        ELSE IF twice > x[2] THEN {Q(lo + 1, 10)}
        ELSE {Q(lo, 10), Q(lo + 1, 10)}

(***************************************************************************)
(* Rendering of one block that has a translation                           *)
(***************************************************************************)
Fill(name) == [op |-> name, size |-> None, result |-> "ok"]

Textbox(size, result) == [op |-> "insert_textbox", size |-> size, result |-> result]

Htmlbox(size, result) == [op |-> "insert_htmlbox", size |-> size, result |-> result]

\* translate_pdf.py: font_size = max(BASE_FONT_SIZE, avg_font_size * 1.1)
translate_pdf_font_size(font_sizes) ==
    LET sizes == [i \in DOMAIN font_sizes |->
                     GetOr(font_sizes[i], Q(BASE_FONT_SIZE, 1))]
        avg_font_size ==
            IF sizes # <<>> THEN QMul(QSum(sizes), Q(1, Len(sizes)))
            ELSE Q(BASE_FONT_SIZE, 1)
    IN  QMax(Q(BASE_FONT_SIZE, 1), QMul(avg_font_size, Q(11, 10)))

\* an except branch that counts the block whatever insert_htmlbox does
translate_pdf_fallback_counted(ops, font_size, out) ==
    [ops |-> Append(ops, Htmlbox(font_size, out.html)), counted |-> TRUE]

\* the except branch of translate_pdf.py: insert_htmlbox at the current size
translate_pdf_fallback(ops, font_size, out) ==
    [ops |-> Append(ops, Htmlbox(font_size, out.html)), counted |-> out.html = "ok"]

\* translate_pdf.py, from draw_rect to translated_blocks += 1
translate_pdf_render(font_sizes, out) ==
    LET fs1 == translate_pdf_font_size(font_sizes)
        fs2 == QMul(fs1, Q(85, 100))
        fs3 == QMul(Q(BASE_FONT_SIZE, 1), Q(9, 10))
        ops1 == <<Fill("draw_rect"), Textbox(fs1, out.t1)>>
        ops2 == Append(ops1, Textbox(fs2, out.t2))
        ops3 == Append(ops2, Textbox(fs3, out.t3))
    IN  IF out.t1 = "raise" THEN translate_pdf_fallback(ops1, fs1, out)
        ELSE IF out.t1 = "fit" THEN [ops |-> ops1, counted |-> TRUE]
        ELSE IF out.t2 = "raise" THEN translate_pdf_fallback(ops2, fs2, out)
        ELSE IF out.t2 = "fit" THEN [ops |-> ops2, counted |-> TRUE]
        ELSE IF out.t3 = "raise" THEN translate_pdf_fallback(ops3, fs3, out)
        ELSE [ops |-> ops3, counted |-> TRUE]

\* pdf_translate.py without the clamp: font_size = font_size * 0.9
pdf_translate_font_size_unclamped(spans) ==
    IF spans # <<>>
    THEN QMul(GetOr(spans[1], Q(9, 1)), Q(9, 10))
    ELSE Q(9, 1)

\* pdf_translate.py: font_size = min(max(font_size * 0.9, 6), 12)
pdf_translate_font_size(spans) ==
    IF spans # <<>>
    THEN QMin(QMax(QMul(GetOr(spans[1], Q(9, 1)), Q(9, 10)), Q(6, 1)), Q(12, 1))
    ELSE Q(9, 1)

\* pdf_translate.py, the write of one line; html_size is the size as formatted
pdf_translate_render(html_size, out) ==
    LET ops1 == <<Fill("add_redact_annot"), Htmlbox(html_size, out.html)>>
        ops2 == Append(ops1, Textbox(Q(9, 1), out.t1))
    IN  IF out.html = "ok" THEN [ops |-> ops1, counted |-> TRUE]
        ELSE [ops |-> ops2, counted |-> out.t1 # "raise"]

\* python_overlay.py: font_size = max(8, min(font_size, 16))
python_overlay_font_size(font_size) ==
    QMax(Q(8, 1), QMin(GetOr(font_size, Q(10, 1)), Q(16, 1)))

\* python_overlay.py, one block with translated_text
python_overlay_render(font_size, x, y, width, height) ==
    [ops |-> <<[op |-> "setFont", size |-> python_overlay_font_size(font_size),
                result |-> "ok"],
               [op |-> "rect", size |-> None, result |-> "ok",
                at |-> [x |-> GetOr(x, Q(0, 1)), y |-> GetOr(y, Q(0, 1)),
                        width |-> GetOr(width, Q(100, 1)),
                        height |-> GetOr(height, Q(20, 1))]],
               [op |-> "drawString", size |-> None, result |-> "ok",
                at |-> [x |-> QAdd(GetOr(x, Q(0, 1)), Q(2, 1)),
                        y |-> QAdd(GetOr(y, Q(0, 1)), Q(2, 1))]]>>,
     counted |-> TRUE]

\* write_translations.py without the second insert_textbox
write_translations_render_no_retry(out) ==
    LET fs1 == Q(FIXED_FONT_SIZE, 1)
        ops1 == <<Fill("draw_rect"), Textbox(fs1, out.t1)>>
        h1 == Append(ops1, Htmlbox(fs1, out.html))
        h2 == Append(h1, Htmlbox(None, out.html2))
    IN  IF out.t1 # "raise" THEN [ops |-> ops1, counted |-> TRUE]
        ELSE IF out.html = "ok" THEN [ops |-> h1, counted |-> TRUE]
        ELSE [ops |-> h2, counted |-> out.html2 = "ok"]

\* write_translations.py, from draw_rect to translated_count += 1
write_translations_render(out) ==
    LET fs1 == Q(FIXED_FONT_SIZE, 1)
        fs2 == Q(FIXED_FONT_SIZE - 2, 1)
        ops1 == <<Fill("draw_rect"), Textbox(fs1, out.t1)>>
        ops2 == Append(ops1, Textbox(fs2, out.t2))
        fallback(ops) ==
            LET h1 == Append(ops, Htmlbox(fs1, out.html))
                h2 == Append(h1, Htmlbox(None, out.html2))
            IN  IF out.html = "ok" THEN [ops |-> h1, counted |-> TRUE]
                ELSE [ops |-> h2, counted |-> out.html2 = "ok"]
    IN  IF out.t1 = "raise" THEN fallback(ops1)
        ELSE IF out.t1 = "fit" THEN [ops |-> ops1, counted |-> TRUE]
        ELSE IF out.t2 = "raise" THEN fallback(ops2)
        ELSE [ops |-> ops2, counted |-> TRUE]

\* what the renderer does with a call: insert_textbox fits (rc >= 0), does
\* not fit (rc < 0) or raises; insert_htmlbox returns or raises
TextboxResults == {"fit", "overflow", "raise"}
HtmlboxResults == {"ok", "raise"}
AllOutcomes ==
    [t1 : TextboxResults, t2 : TextboxResults, t3 : TextboxResults,
     html : HtmlboxResults, html2 : HtmlboxResults]

\* translate_pdf.py: a call that is never made has no result to vary
TranslatePdfOutcomes ==
    {out \in AllOutcomes :
        /\ out.t1 # "overflow" => out.t2 = "fit"
        /\ out.t2 # "overflow" => out.t3 = "fit"
        /\ "raise" \notin {out.t1, out.t2, out.t3} => out.html = "ok"
        /\ out.html2 = "ok"}

\* pdf_translate.py: insert_htmlbox, and insert_textbox only after it raised
PdfTranslateOutcomes ==
    {out \in AllOutcomes :
        /\ out.html = "ok" => out.t1 = "fit"
        /\ out.t2 = "fit" /\ out.t3 = "fit" /\ out.html2 = "ok"}

\* write_translations.py: two insert_textbox sizes, two insert_htmlbox forms
WriteTranslationsOutcomes ==
    {out \in AllOutcomes :
        /\ out.t1 # "overflow" => out.t2 = "fit"
        /\ "raise" \notin {out.t1, out.t2} => out.html = "ok"
        /\ out.html = "ok" => out.html2 = "ok"
        /\ out.t3 = "fit"}

\* original font sizes: absent, or 0.5 .. MaxHalfPoints / 2 points
SpanSizes == {None} \cup {Q(k, 2) : k \in 1..MaxHalfPoints}
SpanLists == UNION {[1..n -> SpanSizes] : n \in 1..MaxSpans}

RenderVariants == {"translate_pdf", "pdf_translate", "python_overlay",
                   "write_translations"}

\* reportlab.lib.pagesizes.A4, in points: 210 mm by 297 mm
A4 == [width |-> Q(59528, 100), height |-> Q(84189, 100)]

\* blocks.json of extract_text.py: y is bbox[1], measured down from the top
\* edge of the page; None is a block without the key
OverlayYs == {None, Q(100, 1), Q(700, 1)}

OverlayHeights == {None, Q(12, 1)}

InitRender ==
    /\ pc = "block"
    /\ variant \in RenderVariants
    /\ block \in IF variant = "translate_pdf" THEN [spans : SpanLists]
                ELSE IF variant = "python_overlay"
                THEN [spans : {<<z>> : z \in SpanSizes}, x : {Q(72, 1)},
                      y : OverlayYs, width : {Q(100, 1)},
                      height : OverlayHeights]
                ELSE [spans : {<<z>> : z \in SpanSizes}]
    /\ block_ops = <<>>
    /\ stats = Unused /\ todo = 0 /\ error = None /\ use_api = FALSE
    /\ used = EmptyDict /\ earlier = <<>> /\ doc = <<>>
    /\ data = <<>> /\ cache = EmptyDict /\ cache_keys = <<>>
    /\ line_text = <<>> /\ translation = <<"x">>
    /\ calls = <<>> /\ verdict = Unused

RenderTranslatePdf ==
    /\ pc = "block" /\ variant = "translate_pdf"
    /\ \E out \in TranslatePdfOutcomes :
          LET r == translate_pdf_render(block.spans, out)
          IN  /\ block_ops' = r.ops
              /\ pc' = IF r.counted THEN "rendered" ELSE "dropped"
    /\ UNCHANGED <<variant, block>>
    /\ UNCHANGED lookupVars
    /\ UNCHANGED runVars

RenderPdfTranslate ==
    /\ pc = "block" /\ variant = "pdf_translate"
    /\ \E out \in PdfTranslateOutcomes :
       \E html_size \in OneDecimal(pdf_translate_font_size(block.spans)) :
          LET r == pdf_translate_render(html_size, out)
          IN  /\ block_ops' = r.ops
              /\ pc' = IF r.counted THEN "rendered" ELSE "dropped"
    /\ UNCHANGED <<variant, block>>
    /\ UNCHANGED lookupVars
    /\ UNCHANGED runVars

RenderPythonOverlay ==
    /\ pc = "block" /\ variant = "python_overlay"
    /\ block_ops' = python_overlay_render(block.spans[1], block.x, block.y,
                                          block.width, block.height).ops
    /\ pc' = "rendered"
    /\ UNCHANGED <<variant, block>>
    /\ UNCHANGED lookupVars
    /\ UNCHANGED runVars

RenderWriteTranslations ==
    /\ pc = "block" /\ variant = "write_translations"
    /\ \E out \in WriteTranslationsOutcomes :
          LET r == write_translations_render(out)
          IN  /\ block_ops' = r.ops
              /\ pc' = IF r.counted THEN "rendered" ELSE "dropped"
    /\ UNCHANGED <<variant, block>>
    /\ UNCHANGED lookupVars
    /\ UNCHANGED runVars

NextRender ==
    \/ RenderTranslatePdf
    \/ RenderPdfTranslate
    \/ RenderPythonOverlay
    \/ RenderWriteTranslations

SpecRender == InitRender /\ [][NextRender]_vars

(***************************************************************************)
(* Claims about font sizes, under SpecRender                               *)
(***************************************************************************)
\* the sizes handed to the renderer for the block
HandedSizes == {block_ops[i].size : i \in DOMAIN block_ops} \ {None}

\* C8 as claimed: every font size handed to the renderer lies in [5, 14].
C8_Original ==
    \A z \in HandedSizes : QLe(Q(5, 1), z) /\ QLe(z, Q(14, 1))

\* C8 as amended: no size handed to the renderer is below 5; it is at most
\* 14 in pdf_translate.py (clamp to [6, 12], fallback 9) and in
\* write_translations.py (10, then 8), at most 16 in python_overlay.py
\* (clamp to [8, 16]), and translate_pdf.py has no ceiling: its first
\* attempt is max(12, 1.1 x average), at least 12.
C8_SizeBands ==
    \A z \in HandedSizes :
        /\ QLe(Q(5, 1), z)
        /\ variant = "pdf_translate" => QLe(Q(6, 1), z) /\ QLe(z, Q(12, 1))
        /\ variant = "write_translations" => QLe(Q(8, 1), z) /\ QLe(z, Q(10, 1))
        /\ variant = "python_overlay" => QLe(Q(8, 1), z) /\ QLe(z, Q(16, 1))
        /\ variant = "translate_pdf" =>
              /\ QLe(Q(51, 5), z)
              /\ QLe(Q(BASE_FONT_SIZE, 1), block_ops[2].size)

\* C8 witness: translate_pdf hands the renderer a size above 14 for a block
\* whose spans average above 12.73 points, and the block is rendered.
C8_Witness ==
    /\ pc = "rendered"
    /\ variant = "translate_pdf"
    /\ Len(block.spans) = 2
    /\ \E z \in HandedSizes : QLt(Q(14, 1), z)

(***************************************************************************)
(* Claims about the order of the calls for one block, under SpecRender     *)
(***************************************************************************)
IsFill(o) == o.op \in {"draw_rect", "add_redact_annot", "rect"}

IsInsertion(o) == o.op \in {"insert_textbox", "insert_htmlbox", "drawString"}

\* the renderer the script tries first, and the one of its except branch
PrimaryOp ==
    IF variant = "pdf_translate" THEN "insert_htmlbox"
    ELSE IF variant = "python_overlay" THEN "drawString"
    ELSE "insert_textbox"

FallbackOp ==
    IF variant = "pdf_translate" THEN "insert_textbox"
    ELSE IF variant = "python_overlay" THEN "none"
    ELSE "insert_htmlbox"

LastOp == block_ops[Len(block_ops)]

\* where the block ends, read off the calls made for it
Rendered == LastOp.op = PrimaryOp /\ LastOp.result # "raise"
FallbackRendered == LastOp.op = FallbackOp /\ LastOp.result # "raise"
Dropped == LastOp.op = FallbackOp /\ LastOp.result = "raise"

\* C15: for a block with a translation, the fill or redaction comes before
\* every text insertion; the fallback renderer is called only right after a
\* call that raised; and the block ends in exactly one of Rendered,
\* FallbackRendered (both counted as translated) and Dropped (not counted).
C15_CompositorOrder ==
    pc \in {"rendered", "dropped"} =>
        /\ \A i \in DOMAIN block_ops :
              IsInsertion(block_ops[i]) =>
                  \E j \in 1..(i - 1) : IsFill(block_ops[j])
        /\ \A i \in DOMAIN block_ops :
              block_ops[i].op = FallbackOp =>
                  i > 1 /\ block_ops[i - 1].result = "raise"
        /\ \A i \in DOMAIN block_ops :
              (block_ops[i].result = "raise" /\ block_ops[i].op = PrimaryOp) =>
                  i < Len(block_ops) /\ block_ops[i + 1].op = FallbackOp
        /\ Rendered \/ FallbackRendered \/ Dropped
        /\ ~(Rendered /\ FallbackRendered) /\ ~(Rendered /\ Dropped)
        /\ ~(FallbackRendered /\ Dropped)
        /\ pc = "dropped" <=> Dropped

\* C15 witness: translate_pdf.py filled the rectangle, the first
\* insert_textbox overflowed, the second raised, and insert_htmlbox wrote
\* the block.
C15_Witness ==
    /\ pc = "rendered" /\ variant = "translate_pdf"
    /\ Len(block_ops) = 4
    /\ IsFill(block_ops[1])
    /\ block_ops[2].result = "overflow"
    /\ block_ops[3].result = "raise"
    /\ FallbackRendered

\* the insert_textbox calls made for the block, in order
TextboxOps == SelectSeq(block_ops, LAMBDA o : o.op = "insert_textbox")

SizeRatio(a, b) == Q(a[1] * b[2], a[2] * b[1])

\* C16 as claimed: after an insert_textbox that did not fit there is one
\* more insert_textbox, at 0.8 to 0.85 times the size, and none after it.
C16_Original ==
    (pc \in {"rendered", "dropped"}
     /\ variant \in {"translate_pdf", "write_translations"}
     /\ TextboxOps # <<>> /\ TextboxOps[1].result = "overflow") =>
        /\ Len(TextboxOps) = 2
        /\ QLe(Q(4, 5), SizeRatio(TextboxOps[2].size, TextboxOps[1].size))
        /\ QLe(SizeRatio(TextboxOps[2].size, TextboxOps[1].size), Q(17, 20))

\* C16 as amended: insert_textbox is called again only after a call that did
\* not fit.  write_translations.py retries once, at 8 points (0.8 times the
\* fixed 10), and ignores the result.  translate_pdf.py retries at 0.85
\* times the first size and, when that does not fit either, once more at the
\* fixed 10.8 points (0.9 x BASE_FONT_SIZE), whose result it ignores.
C16_Retries ==
    (pc \in {"rendered", "dropped"}
     /\ variant \in {"translate_pdf", "write_translations"}) =>
        LET t == TextboxOps
        IN  /\ \A i \in 2..Len(t) : t[i - 1].result = "overflow"
            /\ (t[1].result = "overflow") =>
                  /\ Len(t) >= 2
                  /\ SizeRatio(t[2].size, t[1].size) =
                        IF variant = "translate_pdf" THEN Q(17, 20) ELSE Q(4, 5)
            /\ IF variant = "write_translations" THEN Len(t) <= 2
               ELSE /\ Len(t) <= 3
                    /\ (Len(t) >= 2 /\ t[2].result = "overflow") =>
                          Len(t) = 3 /\ t[3].size = Q(54, 5)

\* C16 witness: translate_pdf.py called insert_textbox three times for a
\* block, none of which fitted, and counted the block.
C16_Witness ==
    /\ pc = "rendered" /\ variant = "translate_pdf"
    /\ Len(TextboxOps) = 3
    /\ \A i \in 1..3 : TextboxOps[i].result = "overflow"

\* C19 as claimed: in translate_pdf.py each insert_textbox for a block is at
\* a smaller size than the one before.
C19_Original ==
    (pc \in {"rendered", "dropped"} /\ variant = "translate_pdf") =>
        \A i \in 2..Len(TextboxOps) :
            QLt(TextboxOps[i].size, TextboxOps[i - 1].size)

\* the rectangle python_overlay.py hands to the canvas for the block
OverlayRect == (CHOOSE o \in Range(block_ops) : o.op = "rect").at

\* C17 as claimed: on the canvas of python_overlay.py, whose origin is the
\* bottom-left corner of a page of height H, the rectangle of a block given
\* from the top of the page has its lower edge at H - y - height, that is,
\* lower edge + y + height = H.
C17_Original ==
    (pc = "rendered" /\ variant = "python_overlay") =>
        QAdd(QAdd(OverlayRect.y, GetOr(block.y, Q(0, 1))), OverlayRect.height)
            = A4.height

(***************************************************************************)
(* Runs of translate_pdf.py, overlay_pdf.py and pdf_translate.py           *)
(***************************************************************************)
\* a cache file that is no JSON, one that holds a JSON list, and no file
Unparseable == [shape |-> "invalid"]
JsonList == [shape |-> "list"]
Absent == [shape |-> "absent"]

\* the key a flat file has for an original: its md5, as TranslationCache.save
\* writes it, or the text without whitespace
FlatKey(keyed, original) ==
    IF keyed = "md5" THEN md5(original) ELSE normalize_text(original)

RECURSIVE FlatOf(_, _, _)
FlatOf(es, keyed, d) ==
    IF es = <<>> THEN d
    ELSE FlatOf(Tail(es), keyed,
                DictSet(d, FlatKey(keyed, Head(es).original), Head(es).translation))

\* a flat key -> translation file for the pairs es
FlatFile(es, keyed) ==
    [shape |-> "flat", keyed |-> keyed, entries |-> es,
     dict |-> FlatOf(es, keyed, EmptyDict)]

\* TranslationCache.load: the cache is whatever json.load returns; a file
\* that does not parse, or no file, leaves the cache {}
TranslationCache_load(file) ==
    IF file.shape = "flat" THEN file.dict
    ELSE IF file.shape = "entries"
    THEN DictSet(EmptyDict, <<"entries">>, file.entries)
    ELSE IF file.shape = "list" THEN NotADict
    ELSE EmptyDict

\* TranslationCache.save that writes nothing
TranslationCache_save_nothing(c, file) == file

\* TranslationCache.save: json.dump(self.cache)
TranslationCache_save(c, file) ==
    IF IsDict(c)
    THEN [shape |-> "flat", keyed |-> "md5", entries |-> <<>>, dict |-> c]
    ELSE JsonList

\* the reply of the translation service to one request
Replies ==
    [kind : {"timeout", "http_500", "malformed"}] \cup
    [kind : {"ok"}, content : {<<" ">>, <<"z", "\n">>}]

\* translate_text that returns the text of the failure
translate_text_error_text(reply) ==
    IF reply.kind = "ok" THEN strip(reply.content) ELSE <<"e">>

\* translate_text / translate_text_api: None on any exception
translate_text(reply) ==
    IF reply.kind = "ok" THEN strip(reply.content) ELSE None

ZeroStats ==
    [visited |-> 0, total |-> 0, translated |-> 0, cached |-> 0,
     from_api |-> 0, skipped |-> 0]

Bump(st, field) == [st EXCEPT ![field] = @ + 1]

ServiceCall(text, reply, result) ==
    [op |-> "translate", text |-> text, ok |-> reply.kind = "ok",
     translation |-> result]

\* the outcome of one pass of the block loop
Step(c, st, tr, made, ops, err) ==
    [cache |-> c, stats |-> st, translation |-> tr, calls |-> made,
     ops |-> ops, error |-> err]

\* translate_pdf.py: one text block, from should_translate to
\* translated_blocks += 1
translate_pdf_block(c, st0, text, spans, rect_empty, reply, out) ==
    LET st == Bump(st0, "visited")
    IN  IF ~should_translate(text)
        THEN Step(c, Bump(st, "skipped"), None, <<>>, <<>>, None)
        ELSE
        LET st1 == Bump(st, "total")
            got == TranslationCache_get(c, text)
        IN  IF got = AttributeError
            THEN Step(c, st1, None, <<>>, <<>>, AttributeError)
            ELSE
            LET hit == Truthy(got)
                tr == IF hit THEN got ELSE translate_text(reply)
                made == IF hit THEN <<>> ELSE <<ServiceCall(text, reply, tr)>>
                c1 == IF ~hit /\ Truthy(tr)
                      THEN TranslationCache_set(c, text, tr) ELSE c
                st2 == IF hit THEN Bump(st1, "cached") ELSE st1
            IN  IF ~Truthy(tr) THEN Step(c1, st2, tr, made, <<>>, None)
                ELSE IF rect_empty THEN Step(c1, st2, tr, made, <<>>, None)
                ELSE
                LET r == translate_pdf_render(spans, out)
                IN  Step(c1, IF r.counted THEN Bump(st2, "translated") ELSE st2,
                         tr, made, r.ops, None)

\* overlay_pdf.py's block with blocks_from_api counted for every request sent
overlay_pdf_block_api_counted(c, st0, raw, api, reply, out) ==
    LET st == Bump(st0, "visited")
        text == strip(raw)
    IN  IF ~overlay_should_translate(text)
        THEN Step(c, Bump(st, "skipped"), None, <<>>, <<>>, None)
        ELSE
        LET got == TranslationCache_get(c, text)
        IN  IF got = AttributeError
            THEN Step(c, st, None, <<>>, <<>>, AttributeError)
            ELSE
            LET hit == Truthy(got)
                asked == ~hit /\ api
                tr == IF asked THEN translate_text(reply) ELSE got
                made == IF asked THEN <<ServiceCall(text, reply, tr)>> ELSE <<>>
                stored == asked /\ Truthy(tr)
                c1 == IF stored THEN TranslationCache_set(c, text, tr) ELSE c
                st1 == IF hit THEN Bump(st, "cached")
                       ELSE IF asked THEN Bump(st, "from_api") ELSE st
                ops == <<Fill("draw_rect"), Htmlbox(None, out.html)>>
            IN  IF ~Truthy(tr) THEN Step(c1, st1, tr, made, <<>>, None)
                ELSE IF out.html = "raise"
                THEN Step(c1, st1, tr, made, ops, <<"insert_htmlbox">>)
                ELSE Step(c1, Bump(st1, "translated"), tr, made, ops, None)

\* overlay_pdf.py: one block, from text.strip() to blocks_processed += 1;
\* insert_htmlbox is called outside any try
overlay_pdf_block(c, st0, raw, api, reply, out) ==
    LET st == Bump(st0, "visited")
        text == strip(raw)
    IN  IF ~overlay_should_translate(text)
        THEN Step(c, Bump(st, "skipped"), None, <<>>, <<>>, None)
        ELSE
        LET got == TranslationCache_get(c, text)
        IN  IF got = AttributeError
            THEN Step(c, st, None, <<>>, <<>>, AttributeError)
            ELSE
            LET hit == Truthy(got)
                asked == ~hit /\ api
                tr == IF asked THEN translate_text(reply) ELSE got
                made == IF asked THEN <<ServiceCall(text, reply, tr)>> ELSE <<>>
                stored == asked /\ Truthy(tr)
                c1 == IF stored THEN TranslationCache_set(c, text, tr) ELSE c
                st1 == IF hit THEN Bump(st, "cached")
                       ELSE IF stored THEN Bump(st, "from_api") ELSE st
                ops == <<Fill("draw_rect"), Htmlbox(None, out.html)>>
            IN  IF ~Truthy(tr) THEN Step(c1, st1, tr, made, <<>>, None)
                ELSE IF out.html = "raise"
                THEN Step(c1, st1, tr, made, ops, <<"insert_htmlbox">>)
                ELSE Step(c1, Bump(st1, "translated"), tr, made, ops, None)

\* pdf_translate.py: one line, from find_translation to page_translated += 1
\* (the redactions of a page are all applied before its lines are written)
pdf_translate_line(c, keys, st0, raw, html_size, out) ==
    LET st == Bump(st0, "visited")
        tr == find_translation(raw, c, keys)
    IN  IF strip(raw) = <<>> THEN Step(c, st, None, <<>>, <<>>, None)
        ELSE IF ~Truthy(tr) THEN Step(c, st, tr, <<>>, <<>>, None)
        ELSE
        LET r == pdf_translate_render(html_size, out)
        IN  Step(c, IF r.counted THEN Bump(st, "translated") ELSE st,
                 tr, <<>>, r.ops, None)

\* texts of the blocks of the document: a sentence, the same sentence spaced
\* differently, a fragment too short to translate, and an equation number
RunTexts == {<<"a", "b", "c">>, <<"a", " ", "b", "c">>, <<"a", "b">>,
             <<"(", "1", ")">>}

\* block texts of overlay_pdf and line texts of pdf_translate come unstripped
RunRawTexts == RunTexts \cup {<<" ", "a", "b", "c", "\n">>}

\* the pairs a cache file describes: the sentence and the fragment;
\* the i-th translation is TransOf(i)
RunOriginals == {<<"a", "b", "c">>, <<"a", "b">>}

RunPairs ==
    UNION {{[i \in 1..n |-> [original |-> os[i], translation |-> TransOf(i)]] :
            os \in [1..n -> RunOriginals]} : n \in 0..MaxEntries}

RunFiles ==
    {Unparseable, JsonList, Absent}
        \cup {EntriesFile(es) : es \in RunPairs}
        \cup {FlatFile(es, keyed) : es \in RunPairs, keyed \in {"md5", "text"}}

RunVariants == {"translate_pdf", "overlay_pdf", "pdf_translate"}

\* the spans of a block: one span of 10 points
RunSpans == {<<Q(10, 1)>>}

\* translate_pdf.py: the text fits, overflows at every size, or
\* insert_textbox raises and insert_htmlbox returns or raises as well
RunOutcomes ==
    {out \in TranslatePdfOutcomes :
        /\ out.t1 = "overflow" => out.t2 = "overflow" /\ out.t3 = "overflow"}

\* main of pdf_translate.py exits before the run when the cache file is
\* missing; translate_pdf.py requires the API settings
InitRun ==
    /\ pc = "start"
    /\ variant \in RunVariants
    /\ data \in RunFiles
    /\ variant = "pdf_translate" => data # Absent
    /\ use_api \in BOOLEAN
    /\ variant # "overlay_pdf" => use_api = (variant = "translate_pdf")
    /\ todo \in 0..MaxBlocks
    /\ stats = ZeroStats
    /\ cache = EmptyDict /\ cache_keys = <<>>
    /\ line_text = <<>> /\ translation = None
    /\ calls = <<>> /\ verdict = Unused
    /\ block = Unused /\ block_ops = <<>>
    /\ error = None
    /\ used = EmptyDict /\ earlier = <<>> /\ doc = <<>>

\* translate_pdf.py, overlay_pdf.py: cache = TranslationCache(cache_path)
StartTranslationCache ==
    /\ pc = "start" /\ variant \in {"translate_pdf", "overlay_pdf"}
    /\ cache' = TranslationCache_load(data)
    /\ pc' = "pages"
    /\ UNCHANGED <<variant, data, cache_keys, line_text, translation, calls,
                   verdict, block, block_ops>>
    /\ UNCHANGED runVars

\* pdf_translate.py: cache = load_cache(cache_path), where json.load may
\* raise, and cache_keys = sorted(...)
StartPdfTranslate ==
    /\ pc = "start" /\ variant = "pdf_translate"
    /\ IF data.shape = "invalid"
       THEN /\ pc' = "crashed"
            /\ error' = <<"JSONDecodeError">>
            /\ UNCHANGED <<cache, cache_keys>>
       ELSE /\ pc' = "pages"
            /\ cache' = load_cache(data)
            /\ cache_keys' = sorted_keys(cache')
            /\ error' = error
    /\ UNCHANGED <<variant, data, line_text, translation, calls, verdict,
                   block, block_ops, stats, todo, use_api, used, earlier,
                   doc>>

\* what a pass of a loop leaves behind
Pass(r) ==
    /\ cache' = r.cache
    /\ stats' = r.stats
    /\ translation' = r.translation
    /\ calls' = calls \o r.calls
    /\ block_ops' = r.ops
    /\ error' = r.error
    /\ pc' = IF r.error = None THEN "pages" ELSE "crashed"
    /\ todo' = todo - 1
    /\ used' = IF Truthy(r.translation)
               THEN DictSet(used, line_text', r.translation) ELSE used
    /\ UNCHANGED <<variant, data, cache_keys, verdict, use_api, earlier, doc>>

\* Inputs of a pass are drawn when the pass reads them: a reply when a
\* request is sent, the rectangle and the renderer's results when there is a
\* translation to write.
NoReply == [kind |-> "none"]
NoOutcome == [t1 |-> "fit", t2 |-> "fit", t3 |-> "fit", html |-> "ok", html2 |-> "ok"]

Asked(c, text, translatable, api) ==
    translatable /\ api /\ IsDict(c) /\ ~Truthy(DictGet(c, md5(text)))

RepliesFor(asked) == IF asked THEN Replies ELSE {NoReply}

Written(c, text, translatable, reply) ==
    /\ translatable /\ IsDict(c)
    /\ Truthy(DictGet(c, md5(text))) \/ Truthy(translate_text(reply))

RectsFor(written) == IF written THEN BOOLEAN ELSE {FALSE}

OutcomesFor(rendered, outcomes) == IF rendered THEN outcomes ELSE {NoOutcome}

\* translate_pdf.py: the body of `for block in ...`
BlockTranslatePdf ==
    /\ pc = "pages" /\ variant = "translate_pdf" /\ todo > 0
    /\ \E text \in RunTexts :
       \E reply \in RepliesFor(Asked(cache, text, should_translate(text), TRUE)) :
       \E rect_empty \in RectsFor(Written(cache, text, should_translate(text), reply)) :
       LET rendered == Written(cache, text, should_translate(text), reply) /\ ~rect_empty
       IN  \E spans \in RunSpans :
           \E out \in OutcomesFor(rendered, RunOutcomes) :
              /\ line_text' = text
              /\ block' = [text |-> text, spans |-> spans, rect_empty |-> rect_empty]
              /\ Pass(translate_pdf_block(cache, stats, text, spans, rect_empty,
                                          reply, out))

\* overlay_pdf.py: the body of `for block in blocks`
BlockOverlayPdf ==
    /\ pc = "pages" /\ variant = "overlay_pdf" /\ todo > 0
    /\ \E raw \in RunRawTexts :
       LET text == strip(raw)
           translatable == overlay_should_translate(text)
       IN  \E reply \in RepliesFor(Asked(cache, text, translatable, use_api)) :
           \E out \in OutcomesFor(Written(cache, text, translatable, reply),
                                  {o \in AllOutcomes : \A f \in {"t1", "t2", "t3", "html2"} :
                                                          o[f] = NoOutcome[f]}) :
              /\ line_text' = text
              /\ block' = [text |-> raw, spans |-> <<>>, rect_empty |-> FALSE]
              /\ Pass(overlay_pdf_block(cache, stats, raw, use_api, reply, out))

\* pdf_translate.py: one line of a page
LinePdfTranslate ==
    /\ pc = "pages" /\ variant = "pdf_translate" /\ todo > 0
    /\ \E raw \in RunRawTexts :
       LET rendered == Truthy(find_translation(raw, cache, cache_keys))
       IN  \E spans \in RunSpans :
           \E out \in OutcomesFor(rendered, PdfTranslateOutcomes) :
           \E html_size \in OneDecimal(pdf_translate_font_size(spans)) :
              /\ line_text' = raw
              /\ block' = [text |-> raw, spans |-> spans, rect_empty |-> FALSE]
              /\ Pass(pdf_translate_line(cache, cache_keys, stats, raw, html_size, out))

\* translate_pdf.py, overlay_pdf.py: cache.save(); doc.ez_save(output_pdf)
FinishTranslationCache ==
    /\ pc = "pages" /\ variant \in {"translate_pdf", "overlay_pdf"} /\ todo = 0
    /\ data' = TranslationCache_save(cache, data)
    /\ pc' = "saved"
    /\ UNCHANGED <<variant, cache, cache_keys, line_text, translation, calls,
                   verdict, block, block_ops>>
    /\ UNCHANGED runVars

\* pdf_translate.py: doc.ez_save(output_pdf)
FinishPdfTranslate ==
    /\ pc = "pages" /\ variant = "pdf_translate" /\ todo = 0
    /\ pc' = "saved"
    /\ UNCHANGED <<variant, data, cache, cache_keys, line_text, translation,
                   calls, verdict, block, block_ops>>
    /\ UNCHANGED runVars

NextRun ==
    \/ StartTranslationCache
    \/ StartPdfTranslate
    \/ BlockTranslatePdf
    \/ BlockOverlayPdf
    \/ LinePdfTranslate
    \/ FinishTranslationCache
    \/ FinishPdfTranslate

SpecRun == InitRun /\ [][NextRun]_vars

(***************************************************************************)
(* Claims about the runs, under SpecRun                                    *)
(***************************************************************************)
\* a step that is one pass of the block loop
IsPass == stats'.visited = stats.visited + 1

\* the pass looked its text up: pdf_translate.py looks every line up, the
\* other two only the blocks their classifier accepts
LookedUp ==
    IF variant = "pdf_translate" THEN strip(line_text') # <<>>
    ELSE IF variant = "overlay_pdf" THEN overlay_should_translate(line_text')
    ELSE should_translate(line_text')

\* what cache c holds under the whitespace-stripped form of text
SeededStripped(c, text) ==
    IF variant = "pdf_translate" THEN DictGet(c, normalize_text(text))
    ELSE IF IsDict(c) THEN DictGet(c, md5(normalize_text(text)))
    ELSE None

\* C3 as claimed: a block whose whitespace-stripped text has a translation
\* x in the cache gets x from the lookup and no service call is made.
C3_Original ==
    [][(IsPass /\ LookedUp /\ Truthy(SeededStripped(cache, block'.text)))
        => /\ translation' = SeededStripped(cache, block'.text)
           /\ calls' = calls]_vars

\* C3 as amended: the key is the whitespace-stripped text only in
\* pdf_translate.py, and there only for texts of at least 3 characters
\* without whitespace: the line gets the translation stored under its
\* stripped form, however the line is spaced.  TranslationCache keys by the
\* md5 of the text as it is looked up: the block gets the translation stored
\* under that very text and no service call is made; a text stored with
\* other whitespace is a miss, and the service is called when it is set up.
C3_KeyTransform ==
    [][(IsPass /\ LookedUp) =>
        IF variant = "pdf_translate"
        THEN LET key == normalize_text(block'.text)
             IN  (Len(key) >= MinTextLen /\ HasKey(cache, key))
                    => translation' = DictGet(cache, key) /\ calls' = calls
        ELSE IsDict(cache) =>
             LET own == DictGet(cache, md5(line_text'))
             IN  /\ Truthy(own) => translation' = own /\ calls' = calls
                 /\ (~Truthy(own) /\ use_api) =>
                        /\ Len(calls') = Len(calls) + 1
                        /\ SubSeq(calls', 1, Len(calls)) = calls
                        /\ calls'[Len(calls')].text = line_text'
                        /\ translation' = calls'[Len(calls')].translation
                 /\ (~Truthy(own) /\ ~use_api) =>
                        ~Truthy(translation') /\ calls' = calls]_vars

\* C3 witness: translate_pdf.py sends "a bc" to the service although the
\* cache file holds a translation under md5("abc").
C3_Witness ==
    /\ pc = "pages" /\ variant = "translate_pdf"
    /\ line_text = <<"a", " ", "b", "c">>
    /\ data.shape = "flat" /\ HasKey(data.dict, md5(normalize_text(line_text)))
    /\ calls # <<>> /\ calls[Len(calls)].text = line_text
    /\ Truthy(translation)

\* the step sent a request to the translation service and the call failed
ServiceFailed ==
    /\ Len(calls') = Len(calls) + 1
    /\ ~calls'[Len(calls')].ok

\* C5 as claimed: a failed service call leaves the page alone, the run goes
\* on, and the skipped counter goes up by one.
C5_Original ==
    [][ServiceFailed =>
        /\ block_ops' = <<>>
        /\ pc' = "pages"
        /\ stats'.skipped = stats.skipped + 1]_vars

\* C5 as amended: a failed service call leaves the page alone (no fill, no
\* text), stores nothing in the cache, and the run goes on to the next
\* block; no counter but those of the blocks met changes: the skipped
\* counter counts only the blocks the classifier rejects.
C5_FailureLeavesBlock ==
    [][ServiceFailed =>
        /\ block_ops' = <<>>
        /\ cache' = cache
        /\ pc' = "pages" /\ error' = None
        /\ todo' = todo - 1
        /\ stats'.skipped = stats.skipped
        /\ stats'.translated = stats.translated
        /\ stats'.cached = stats.cached
        /\ stats'.from_api = stats.from_api]_vars

\* C5 witness: the service failed for the second block of a run that had
\* written the first, and the run saved.
C5_Witness ==
    /\ pc = "saved"
    /\ stats.visited = 2 /\ stats.translated = 1 /\ stats.skipped = 0
    /\ calls # <<>> /\ ~calls[Len(calls)].ok
    /\ calls[Len(calls)].text = line_text
    /\ block_ops = <<>>

\* C6 as claimed: a cache file that is no JSON, or JSON that is no object,
\* gives an empty cache and no error, at the load and at the lookups.
C6_Original ==
    (data.shape \in {"invalid", "list"} /\ pc # "start")
        => /\ error = None
           /\ stats.visited = 0 => cache = EmptyDict

\* the files of the other shape that describe the pairs of a file
OtherShapes(file) ==
    IF file.shape = "flat" THEN {EntriesFile(file.entries)}
    ELSE {FlatFile(file.entries, keyed) : keyed \in {"md5", "text"}}

LoadOf(file) ==
    IF variant = "pdf_translate" THEN load_cache(file)
    ELSE TranslationCache_load(file)

Lookup(c, text) ==
    IF variant = "pdf_translate" THEN find_translation(text, c, sorted_keys(c))
    ELSE DictGet(c, md5(text))

Loaded == pc = "pages" /\ stats.visited = 0 /\ data.shape \in {"flat", "entries"}

\* C7 as claimed: the cache loaded from a file answers every lookup as the
\* cache loaded from a file of the other shape with the same pairs does.
C7_Original ==
    Loaded =>
        \E other \in OtherShapes(data) :
            \A text \in RunRawTexts :
                Lookup(cache, text) = Lookup(LoadOf(other), text)

\* the translation of the last pair of es whose original is o
LastOf(es, o) ==
    LET I == {i \in DOMAIN es : es[i].original = o}
    IN  es[CHOOSE i \in I : \A j \in I : j <= i].translation

\* C7 as amended: each loader reads one shape.  load_cache reads the entries
\* shape, where an original of at least 3 characters without whitespace is
\* found with the translation of its last pair, and takes a flat file for an
\* empty cache.  TranslationCache.load keeps the JSON object as it is: a flat
\* file keyed by md5 answers each original with the translation of its last
\* pair; a flat file keyed by text and the entries shape answer no lookup.
C7_OneShapePerLoader ==
    Loaded =>
        LET es == data.entries
            answers == \A i \in DOMAIN es :
                          Len(normalize_text(es[i].original)) >= MinTextLen
                             => Lookup(cache, es[i].original) = LastOf(es, es[i].original)
            silent == \A text \in RunRawTexts : Lookup(cache, text) = None
        IN  IF variant = "pdf_translate"
            THEN IF data.shape = "entries" THEN answers ELSE silent
            ELSE IF data.shape = "flat" /\ data.keyed = "md5"
                 THEN \A i \in DOMAIN es :
                         Lookup(cache, es[i].original) = LastOf(es, es[i].original)
                 ELSE silent

\* C7 witness: pdf_translate.py has loaded a flat file that describes a
\* sentence, and its cache is empty.
C7_Witness ==
    /\ Loaded /\ variant = "pdf_translate" /\ data.shape = "flat"
    /\ \E i \in DOMAIN data.entries : Len(data.entries[i].original) >= MinTextLen
    /\ cache = EmptyDict

\* C9 as claimed: with a cache that loaded, a run ends in an error only
\* before the first block is visited.
C9_Original ==
    (pc = "crashed" /\ IsDict(cache)) => stats.visited = 0

\* the classifier that gates the blocks of the script, if it has one
Gate(text) ==
    IF variant = "translate_pdf" THEN should_translate(text)
    ELSE IF variant = "overlay_pdf" THEN overlay_should_translate(text)
    ELSE TRUE

\* C14: the page is touched for a block (fill, redaction, insertion) only
\* if a non-empty translation was obtained for it and the script's
\* classifier, where it has one, accepted the text; for a rejected block
\* (formula, line numbers, noise) and for a block without translation the
\* page is left as it is.
C14_UntranslatedUndisturbed ==
    (pc \in {"pages", "crashed", "saved"} /\ stats.visited > 0) =>
        /\ block_ops # <<>> =>
              /\ translation # None /\ translation # <<>>
              /\ Gate(line_text)
        /\ (~Gate(line_text) \/ translation = None \/ translation = <<>>) =>
              block_ops = <<>>

\* C14 witness: overlay_pdf.py met an equation number after it had written
\* a block, and made no call on the page for it.
C14_Witness ==
    /\ pc = "pages" /\ variant = "overlay_pdf"
    /\ stats.translated = 1 /\ stats.skipped = 1
    /\ is_formula(line_text)
    /\ translation = None
    /\ block_ops = <<>>

\* the pass sent one request to the translation service
Called ==
    /\ Len(calls') = Len(calls) + 1
    /\ SubSeq(calls', 1, Len(calls)) = calls

\* C21: in a run of translate_pdf.py or overlay_pdf.py a pass sends at most
\* one request, and only for a block its should_translate accepted and for
\* which the cache holds no non-empty translation; no request is sent for a
\* text for which an earlier request of the run returned a non-empty
\* translation; and the cache changes only by storing the non-empty result
\* of the request under the text.
C21_ServiceOnlyWhenNeeded ==
    [][(IsPass /\ variant \in {"translate_pdf", "overlay_pdf"}) =>
        /\ calls' = calls \/ Called
        /\ calls' = calls => cache' = cache
        /\ Called =>
            LET call == calls'[Len(calls')]
            IN  /\ call.text = line_text'
                /\ LookedUp
                /\ IsDict(cache)
                /\ ~Truthy(DictGet(cache, md5(call.text)))
                /\ \A i \in DOMAIN calls :
                       calls[i].text = call.text => ~Truthy(calls[i].translation)
                /\ ~Truthy(call.translation) => cache' = cache
                /\ Truthy(call.translation) =>
                       cache' = DictSet(cache, md5(call.text), call.translation)]_vars

\* C21 witness: a run without a cache file met the same text twice; the first
\* block was sent to the service, which translated it, and the second block
\* was served from the cache and written without a request.
C21_Witness ==
    /\ pc = "pages" /\ variant \in {"translate_pdf", "overlay_pdf"}
    /\ data = Absent
    /\ stats.visited = 2 /\ stats.cached = 1
    /\ Len(calls) = 1
    /\ calls[1].text = line_text
    /\ Truthy(calls[1].translation)
    /\ translation = calls[1].translation
    /\ block_ops # <<>>

\* the counters of overlay_pdf.py: blocks_processed, blocks_skipped,
\* blocks_from_cache, blocks_from_api
OverlayCounters == {"translated", "skipped", "cached", "from_api"}

\* C22: in a run of overlay_pdf.py, after every pass of the block loop that
\* ran to its end blocks_processed = blocks_from_cache + blocks_from_api; a
\* pass adds one to at most one of blocks_skipped and blocks_processed; and
\* no counter ever goes down.
C22_CountersConsistent ==
    [][variant = "overlay_pdf" =>
        /\ (IsPass /\ pc' = "pages") =>
               stats'.translated = stats'.cached + stats'.from_api
        /\ IsPass =>
               /\ stats'.skipped \in {stats.skipped, stats.skipped + 1}
               /\ stats'.translated \in {stats.translated, stats.translated + 1}
               /\ ~(stats'.skipped = stats.skipped + 1
                       /\ stats'.translated = stats.translated + 1)
        /\ \A f \in OverlayCounters : stats'[f] >= stats[f]]_vars

\* C22 witness: a run of overlay_pdf.py wrote two blocks, one translated by
\* the service and one served from the cache.
C22_Witness ==
    /\ pc = "pages" /\ variant = "overlay_pdf"
    /\ stats.visited = 2
    /\ stats.translated = 2 /\ stats.cached = 1 /\ stats.from_api = 1
    /\ stats.skipped = 0
    /\ block_ops # <<>>

(***************************************************************************)
(* Runs of translate_pdf.py one after the other on one cache file          *)
(***************************************************************************)
\* the cache file before the first run: none, or one an earlier run saved
WarmFiles ==
    {Absent,
     FlatFile(<<[original |-> <<"a", "b", "c">>, translation |-> TransOf(1)]>>,
              "md5")}

InitWarm ==
    /\ pc = "start"
    /\ variant = "translate_pdf"
    /\ data \in WarmFiles
    /\ use_api = TRUE
    /\ todo \in 1..MaxBlocks
    /\ stats = ZeroStats
    /\ cache = EmptyDict /\ cache_keys = <<>>
    /\ line_text = <<>> /\ translation = None
    /\ calls = <<>> /\ verdict = Unused
    /\ block = Unused /\ block_ops = <<>>
    /\ error = None
    /\ used = EmptyDict /\ earlier = <<>> /\ doc = <<>>

\* translate_pdf.py is started again with the same cache path
Rerun ==
    /\ pc = "saved" /\ variant = "translate_pdf"
    /\ Len(earlier) + 1 < MaxRuns
    /\ pc' = "start"
    /\ todo' \in 1..MaxBlocks
    /\ stats' = ZeroStats
    /\ cache' = EmptyDict
    /\ line_text' = <<>> /\ translation' = None
    /\ calls' = <<>>
    /\ block' = Unused /\ block_ops' = <<>>
    /\ earlier' = Append(earlier, used)
    /\ used' = EmptyDict
    /\ UNCHANGED <<variant, data, cache_keys, verdict, error, use_api, doc>>

NextWarm ==
    \/ StartTranslationCache
    \/ BlockTranslatePdf
    \/ FinishTranslationCache
    \/ Rerun

SpecWarm == InitWarm /\ [][NextWarm]_vars

MaxPages == 2

\* pymupdf.Rect(x0, y0, x1, y1)
Rect(x0, y0, x1, y1) == [x0 |-> x0, y0 |-> y0, x1 |-> x1, y1 |-> y1]

\* Rect.is_empty: the rectangle has no area
is_empty(r) == r.x0 >= r.x1 \/ r.y0 >= r.y1

Larger(a, b) == IF a >= b THEN a ELSE b

\* rect & page.rect: the intersection, empty when either side is empty
Rect_and(a, b) ==
    IF is_empty(a) \/ is_empty(b) THEN Rect(0, 0, 0, 0)
    ELSE Rect(Larger(a.x0, b.x0), Larger(a.y0, b.y0),
              Min(a.x1, b.x1), Min(a.y1, b.y1))

\* page.rect of an A4 page, in whole points
PageRect == Rect(0, 0, 595, 842)

\* doc[page_num] for page_num < len(doc): the index of the page that is
\* loaded; a negative number counts from the end of the document
LoadPage(n, page_num) == (page_num % n) + 1

\* write_translations.py: the body of `for block in blocks`
write_translations_block(d, st, b, out) ==
    LET translated_text == strip(b.translated_text)
        same == [doc |-> d, stats |-> st, ops |-> <<>>]
    IN  IF translated_text = <<>>
        THEN [same EXCEPT !.stats = Bump(st, "skipped_count")]
        ELSE IF b.page >= Len(d) THEN same
        ELSE
        LET p == LoadPage(Len(d), b.page)
            rect == Rect_and(Rect(b.x, b.y, b.x + b.width, b.y + b.height),
                             PageRect)
        IN  IF is_empty(rect) THEN same
            ELSE
            LET r == write_translations_render(out)
            IN  [doc |-> [d EXCEPT ![p] = @ \o r.ops],
                 stats |-> IF r.counted THEN Bump(st, "translated_count") ELSE st,
                 ops |-> r.ops]

\* translated_text of a block: none, blank, or a translation
WriteTexts == {<<>>, <<" ">>, <<"x", " ">>}

\* "page" of a block: before the first page, a page, or past the last one
WritePages == (0 - 1)..MaxPages

\* "x", "y", "width", "height" of a block: on the page, without width, right
\* of the page, across its right edge, above its top edge
WriteBoxes ==
    {[x |-> 72, y |-> 100, width |-> 100, height |-> 20],
     [x |-> 72, y |-> 100, width |-> 0, height |-> 20],
     [x |-> 700, y |-> 100, width |-> 100, height |-> 20],
     [x |-> 550, y |-> 100, width |-> 100, height |-> 20],
     [x |-> 72, y |-> 0 - 50, width |-> 100, height |-> 20]}

\* the keys of a block are read one after the other: "page" only when there
\* is a translation, the box only when the page was loaded
PagesFor(text) == IF strip(text) = <<>> THEN {0} ELSE WritePages

BoxesFor(text, page, n) ==
    IF strip(text) = <<>> \/ page >= n
    THEN {[x |-> 72, y |-> 100, width |-> 100, height |-> 20]}
    ELSE WriteBoxes

WriteBlock(text, page, box) ==
    [translated_text |-> text, page |-> page, x |-> box.x, y |-> box.y,
     width |-> box.width, height |-> box.height]

InitWrite ==
    /\ pc = "start"
    /\ variant = "write_translations"
    /\ todo \in 0..MaxBlocks
    /\ stats = [translated_count |-> 0, skipped_count |-> 0]
    /\ doc = <<>>
    /\ block = Unused /\ block_ops = <<>>
    /\ data = <<>> /\ cache = EmptyDict /\ cache_keys = <<>>
    /\ line_text = <<>> /\ translation = None
    /\ calls = <<>> /\ verdict = Unused
    /\ error = None /\ use_api = FALSE
    /\ used = EmptyDict /\ earlier = <<>>

\* blocks = json.load(f); doc = pymupdf.open(input_pdf)
StartWriteTranslations ==
    /\ pc = "start" /\ variant = "write_translations"
    /\ \E n \in 1..MaxPages : doc' = [i \in 1..n |-> <<>>]
    /\ pc' = "blocks"
    /\ UNCHANGED <<variant, block, block_ops, stats, todo, error, use_api,
                   used, earlier>>
    /\ UNCHANGED lookupVars

BlockWriteTranslations ==
    /\ pc = "blocks" /\ variant = "write_translations" /\ todo > 0
    /\ \E text \in WriteTexts :
       \E page \in PagesFor(text) :
       \E box \in BoxesFor(text, page, Len(doc)) :
       LET b == WriteBlock(text, page, box)
           drawn == write_translations_block(doc, stats, b, NoOutcome).ops # <<>>
       IN  \E out \in OutcomesFor(drawn, WriteTranslationsOutcomes) :
           LET r == write_translations_block(doc, stats, b, out)
           IN  /\ block' = b
               /\ block_ops' = r.ops
               /\ doc' = r.doc
               /\ stats' = r.stats
               /\ todo' = todo - 1
    /\ UNCHANGED <<pc, variant, error, use_api, used, earlier>>
    /\ UNCHANGED lookupVars

\* doc.subset_fonts(); doc.ez_save(output_pdf); doc.close()
FinishWriteTranslations ==
    /\ pc = "blocks" /\ variant = "write_translations" /\ todo = 0
    /\ pc' = "saved"
    /\ UNCHANGED <<variant, block, block_ops>>
    /\ UNCHANGED lookupVars
    /\ UNCHANGED runVars

NextWrite ==
    \/ StartWriteTranslations
    \/ BlockWriteTranslations
    \/ FinishWriteTranslations

SpecWrite == InitWrite /\ [][NextWrite]_vars

\* the block's page number is no page of the document
NoSuchPage(b) == b.page \notin 0..(Len(doc) - 1)

\* the block's rectangle is degenerate or has nothing in common with the page
OffPage(b) ==
    is_empty(Rect_and(Rect(b.x, b.y, b.x + b.width, b.y + b.height), PageRect))

\* C18 as claimed: a pass of write_translations.py over a block with a
\* translation whose page number is no page of the document, or whose
\* rectangle is degenerate or off the page, makes no call on any page, and the
\* loop goes on.
C18_Original ==
    [][(pc = "blocks" /\ todo' = todo - 1
            /\ strip(block'.translated_text) # <<>>
            /\ (NoSuchPage(block') \/ OffPage(block')))
        => (doc' = doc /\ block_ops' = <<>> /\ pc' = "blocks")]_vars

(***************************************************************************)
(* Claims about find_translation, under SpecFind                           *)
(***************************************************************************)
\* the translation the cache file stores under key k: that of the last entry
\* with non-empty original and translation whose stripped original is k
StoredUnder(file, k) ==
    LET I == {i \in DOMAIN file.entries :
                 /\ file.entries[i].original # <<>>
                 /\ file.entries[i].translation # <<>>
                 /\ normalize_text(file.entries[i].original) = k}
    IN  IF I = {} THEN None
        ELSE file.entries[CHOOSE i \in I : \A j \in I : j <= i].translation

StoredKeys(file) ==
    {normalize_text(file.entries[i].original) : i \in DOMAIN file.entries}

\* C1: when the whitespace-stripped text (length >= 3) is itself a cache key,
\* find_translation returns the translation stored under exactly that key,
\* whatever other keys the cache holds.
C1_ExactMatchWins ==
    LET n == normalize_text(line_text)
    IN  (pc = "found" /\ Len(n) >= 3 /\ StoredUnder(data, n) # None)
            => translation = StoredUnder(data, n)

\* C1 witness: an exact hit while another, shorter key of length >= 10 is a
\* substring of the text and carries a different translation.
C1_Witness ==
    LET n == normalize_text(line_text)
    IN  /\ pc = "found"
        /\ Len(n) >= 3
        /\ StoredUnder(data, n) # None
        /\ translation = StoredUnder(data, n)
        /\ \E k \in StoredKeys(data) :
              /\ k # n /\ Len(k) >= 10 /\ Contains(k, n)
              /\ StoredUnder(data, k) # translation

\* the keys each fuzzy step accepts, stated on the cache file
C2_Step3(n, k) == Len(k) >= 10 /\ Contains(k, n)
C2_Step4(n, k) == Len(n) >= 10 /\ Contains(n, k)
C2_Step5(n, k) ==
    /\ Len(n) >= 12 /\ Len(k) >= 12
    /\ \E i \in 1..(Len(n) - 11) : Contains(SubSeq(n, i, i + 11), k)
C2_Step6(n, k) ==
    /\ Len(n) >= 10 /\ Len(k) >= 10
    /\ SubSeq(n, 1, 10) = SubSeq(k, 1, 10)

C2_Longest(S) == {k \in S : \A j \in S : Len(j) <= Len(k)}

C2_Expected(file, n) ==
    LET K == StoredKeys(file)
        S3 == {k \in K : C2_Step3(n, k)}
        S4 == {k \in K : C2_Step4(n, k)}
        S5 == {k \in K : C2_Step5(n, k)}
        S6 == {k \in K : C2_Step6(n, k)}
        S == IF S3 # {} THEN S3 ELSE IF S4 # {} THEN S4
             ELSE IF S5 # {} THEN S5 ELSE S6
    IN  IF S = {} THEN {None}
        ELSE {StoredUnder(file, k) : k \in C2_Longest(S)}

\* C2: without an exact match, the fuzzy steps are tried in the order
\* key-in-text, text-in-key, 12-character window, common prefix >= 10; the
\* first step that accepts a key decides, and it returns the translation of
\* a longest key it accepts; when no step accepts a key, nothing is returned.
C2_FuzzyOrderLongestFirst ==
    LET n == normalize_text(line_text)
    IN  (pc = "found" /\ Len(n) >= 3 /\ StoredUnder(data, n) = None)
            => translation \in C2_Expected(data, n)

\* C2 witness: no key is contained in the text, two keys of different
\* lengths contain the text, and the longer one's translation is returned.
C2_Witness ==
    LET n == normalize_text(line_text)
        K == StoredKeys(data)
    IN  /\ pc = "found"
        /\ StoredUnder(data, n) = None
        /\ {k \in K : C2_Step3(n, k)} = {}
        /\ \E k1, k2 \in K :
              /\ C2_Step4(n, k1) /\ C2_Step4(n, k2)
              /\ Len(k1) < Len(k2)
              /\ translation = StoredUnder(data, k2)
              /\ translation # StoredUnder(data, k1)

\* C20: for a text whose whitespace-stripped form n is shorter than 10,
\* find_translation returns a translation only when n is a cache key, and
\* then the one stored under n; when n is shorter than 3 it returns nothing,
\* key or not.
C20_ShortQueryExactOnly ==
    LET n == normalize_text(line_text)
    IN  (pc = "found" /\ Len(n) < MinFuzzyLen) =>
            /\ translation # None =>
                   /\ StoredUnder(data, n) # None
                   /\ translation = StoredUnder(data, n)
            /\ Len(n) < MinTextLen => translation = None

\* C20 witness: a text of 3 to 9 characters that is no key but lies inside a
\* key of 10 or more characters, and nothing was returned for it.
C20_Witness ==
    LET n == normalize_text(line_text)
    IN  /\ pc = "found"
        /\ Len(n) >= MinTextLen /\ Len(n) < MinFuzzyLen
        /\ StoredUnder(data, n) = None
        /\ \E k \in StoredKeys(data) :
              /\ Len(k) >= MinFuzzyLen
              /\ StoredUnder(data, k) # None
              /\ Contains(n, k)
        /\ translation = None

====
